---- MODULE Spec2Model ----
(***************************************************************************)
(* Residue arithmetic of crypto-bigint with the RISC Zero accelerator.     *)
(*                                                                         *)
(* The model runs one residue computation on two backends side by side:    *)
(* field sw of a residue is the value the software Montgomery backend      *)
(* stores (Montgomery form), field hw the value the zkVM backend stores    *)
(* for LIMBS = BIGINT_WIDTH_WORDS (standard form, products by sys_bigint). *)
(* Words are WordBits wide and a Uint has LIMBS words; both are scaled     *)
(* down from the 8 x 32 bit words of the accelerator.                      *)
(***************************************************************************)
EXTENDS Integers

\* Model bound: words per Uint (the const generic LIMBS of every function).
LIMBS == 2

\* Limb::BITS, scaled down from 32.
WordBits == 2

\* risc0.rs: the accelerated width in words. The model instantiates the
\* residue type at the accelerated width, so that `LIMBS == BIGINT_WIDTH_WORDS`
\* holds wherever the zkVM code tests it.
BIGINT_WIDTH_WORDS == LIMBS

Base == 2 ^ WordBits

Width == LIMBS * WordBits

\* Number of values of a Uint<LIMBS>.
UintSize == 2 ^ Width

Uint == 0 .. (UintSize - 1)

\* The moduli of the model: every odd modulus above 1 of the width.
Moduli == {m \in 3 .. (UintSize - 1) : m % 2 = 1}

\* hw field of a residue whose accelerator call has not returned yet.
Pending == -1

RECURSIVE GCD(_, _)
GCD(p, q) == IF q = 0 THEN p ELSE GCD(q, p % q)

VARIABLES
  MODULUS,   \* ResidueParams::MODULUS
  phase,     \* "loadX", "loadY", "ready", "done": what the caller does next
  op,        \* the operation that produced z, wire or pure ("none" before)
  x, y, z,   \* residues: operands x, y and the result z, as [sw, hw]
  a, b,      \* the integers x and y stand for (the arguments given to new)
  xfrom,     \* how x was made: "const", "new", "decode", "rejected"
  pc,        \* modmul_u256: "idle", "check" (sys_bigint returned), "aborted"
  call,      \* the arguments of the accelerator call in progress or last made
  out,       \* the buffer sys_bigint wrote
  dest,      \* where the result of the call goes: "x", "y", "z", "wire", "none"
  faithful,  \* whether sys_bigint wrote the product it is specified to write
  found,     \* the is_some flag of the last inversion, as [sw, hw]
  wire,      \* the integer the last serialize emitted, as [sw, hw]
  pure       \* arguments and results of the last call of a conversion function

vars == <<MODULUS, phase, op, x, y, z, a, b, xfrom, pc, call, out, dest,
          faithful, found, wire, pure>>

----------------------------------------------------------------------------
(* ResidueParams: the constants derived from the modulus.                  *)

\* R = 2^(LIMBS * WordBits) mod MODULUS
R == UintSize % MODULUS

R2 == (R * R) % MODULUS

R3 == (R2 * R) % MODULUS

\* The lowest limb of -(MODULUS^-1) mod 2^WordBits.
MOD_NEG_INV == CHOOSE k \in 0 .. (Base - 1) : (k * MODULUS + 1) % Base = 0

----------------------------------------------------------------------------
(* Uint primitives the residue code calls.                                 *)

\* Uint::mul_wide: the full product as (lo, hi).
mul_wide(p, q) == [lo |-> (p * q) % UintSize, hi |-> (p * q) \div UintSize]

\* The REDC loop: LIMBS rounds, each cancelling the lowest limb of the
\* running value t by adding u * modulus and shifting one limb.
RECURSIVE redc_loop(_, _, _, _)
redc_loop(t, modulus, mod_neg_inv, i) ==
  IF i = LIMBS THEN t
  ELSE LET u == ((t % Base) * mod_neg_inv) % Base
       IN  redc_loop((t + u * modulus) \div Base, modulus, mod_neg_inv, i + 1)

\* The running value after the loop: its LIMBS low words and the carry out.
redc_intermediate(lower_upper, modulus, mod_neg_inv) ==
  redc_loop(lower_upper.lo + lower_upper.hi * UintSize, modulus, mod_neg_inv, 0)

\* Mutant: the final subtraction only when the intermediate is strictly
\* above the modulus, and blind to the carry word.
montgomery_reduction_strict(lower_upper, modulus, mod_neg_inv) ==
  LET t     == redc_intermediate(lower_upper, modulus, mod_neg_inv)
      upper == t % UintSize
  IN  IF upper > modulus THEN upper - modulus ELSE upper

\* montgomery_reduction: the loop, then one conditional subtraction of the
\* modulus from (meta_carry, upper), taken when that value is not below it.
montgomery_reduction(lower_upper, modulus, mod_neg_inv) ==
  LET t          == redc_intermediate(lower_upper, modulus, mod_neg_inv)
      upper      == t % UintSize
      meta_carry == t \div UintSize
  IN  IF meta_carry # 0 \/ upper >= modulus
      THEN (upper + UintSize - modulus) % UintSize
      ELSE upper

\* mul_montgomery_form on the software backend.
mul_montgomery_form(p, q, modulus, mod_neg_inv) ==
  montgomery_reduction(mul_wide(p, q), modulus, mod_neg_inv)

\* add_montgomery_form: p + q mod modulus for reduced p, q.
add_montgomery_form(p, q, modulus) ==
  IF p + q >= modulus THEN p + q - modulus ELSE p + q

\* sub_montgomery_form: p - q mod modulus for reduced p, q.
sub_montgomery_form(p, q, modulus) ==
  IF p >= q THEN p - q ELSE p + modulus - q

\* neg_montgomery_form
neg_montgomery_form(p, modulus) == sub_montgomery_form(0, p, modulus)

\* div_by_2 on a stored value: parity test, conditional addition of the
\* modulus keeping the carry of the addition, exact shift right by one.
div_by_2(p, modulus) ==
  LET sum   == IF p % 2 = 1 THEN p + modulus ELSE p
      lo    == sum % UintSize
      carry == sum \div UintSize
  IN  (lo \div 2) + carry * (UintSize \div 2)

\* Uint::inv_odd_mod: (candidate, is_some). The candidate is the inverse
\* when there is one; otherwise it is some value below the modulus, g.
inv_odd_mod(p, modulus, g) ==
  IF GCD(p, modulus) = 1
  THEN [value |-> CHOOSE i \in 0 .. (modulus - 1) : (i * p) % modulus = 1,
        is_some |-> TRUE]
  ELSE [value |-> g, is_some |-> FALSE]

\* Candidates followed for a p without inverse: the least and the greatest.
Garbage(p, modulus) ==
  IF GCD(p, modulus) = 1 THEN {0} ELSE {0, modulus - 1}

----------------------------------------------------------------------------
(* The accelerator shim (risc0.rs).                                        *)

\* The product sys_bigint is specified to write: x * y mod modulus, and the
\* unreduced product (cut to the buffer) for the all-zero modulus.
sys_bigint(px, py, modulus) ==
  IF modulus = 0 THEN (px * py) % UintSize ELSE (px * py) % modulus

\* Mutant: the range assertion accepts the modulus itself.
canonical_le(result, modulus) == result <= modulus

\* Mutant: no range assertion.
canonical_unchecked(result, modulus) == TRUE

\* modmul_u256: assert!(bool::from(result.ct_lt(&modulus)))
canonical(result, modulus) == result < modulus

\* The cfg(target_os = "zkvm") code paths apply when the width matches.
Accelerated(zkvm) == zkvm /\ LIMBS = BIGINT_WIDTH_WORDS

NoCall == [x |-> 0, y |-> 0, modulus |-> 0]

----------------------------------------------------------------------------
(* Residue (constant_mod.rs), the conversion layer (repr.rs) and the       *)
(* inverse (inv.rs). A parameter zkvm selects the cfg branch.              *)

\* Residue::ZERO
ZERO == [sw |-> 0, hw |-> 0]

\* Residue::ONE, on either target.
ONE == [sw |-> R, hw |-> IF LIMBS = BIGINT_WIDTH_WORDS THEN 1 ELSE R]

\* Mutant: new multiplies by R instead of R2.
new_montgomery_r(integer) ==
  montgomery_reduction(mul_wide(integer, R), MODULUS, MOD_NEG_INV)

\* Residue::new, software path: REDC of integer * R2.
new_montgomery(integer) ==
  montgomery_reduction(mul_wide(integer, R2), MODULUS, MOD_NEG_INV)

\* Residue::new, zkVM path: modmul of the integer by one.
new_call(integer) == [x |-> integer, y |-> 1, modulus |-> MODULUS]

\* Mutant: retrieve returns the stored value on every path.
retrieve_stored(zkvm, montgomery_form) == montgomery_form

\* Residue::retrieve
retrieve(zkvm, montgomery_form) ==
  IF Accelerated(zkvm) THEN montgomery_form
  ELSE montgomery_reduction([lo |-> montgomery_form, hi |-> 0],
                            MODULUS, MOD_NEG_INV)

\* Mutant: halving by the shift alone.
Residue_div_by_2_shift(montgomery_form) == montgomery_form \div 2

\* Residue::div_by_2
Residue_div_by_2(montgomery_form) == div_by_2(montgomery_form, MODULUS)

\* ConditionallySelectable::conditional_select on the stored values.
conditional_select(p, q, choice) == IF choice THEN q ELSE p

\* Multiplication of residues on the zkVM path: modmul of the stored values.
mul_call(p, q) == [x |-> p, y |-> q, modulus |-> MODULUS]

\* Mutant: deserialize accepts the modulus itself.
deserialize_reduced_le(montgomery_form) == montgomery_form <= MODULUS

\* Deserialize: Uint::ct_lt(&montgomery_form, &MOD::MODULUS)
deserialize_reduced(montgomery_form) == montgomery_form < MODULUS

\* Deserialize, zkVM path: r_inv = MOD::R.inv_odd_mod(&MOD::MODULUS).0
r_inv == inv_odd_mod(R, MODULUS, 0).value

\* Deserialize, zkVM path: modmul of the decoded value by r_inv.
deserialize_call(montgomery_form) ==
  [x |-> montgomery_form, y |-> r_inv, modulus |-> MODULUS]

\* Mutant: serialize emits the standard form (modmul by one).
serialize_call_one(montgomery_form) ==
  [x |-> montgomery_form, y |-> 1, modulus |-> MODULUS]

\* Serialize, zkVM path: modmul of the stored value by R.
serialize_call(montgomery_form) ==
  [x |-> montgomery_form, y |-> R, modulus |-> MODULUS]

\* Mutant: the candidate is returned as it is on every path.
inv_montgomery_form_raw(zkvm, p, modulus, r3, mod_neg_inv, g) ==
  inv_odd_mod(p, modulus, g)

\* inv_montgomery_form
inv_montgomery_form(zkvm, p, modulus, r3, mod_neg_inv, g) ==
  LET c == inv_odd_mod(p, modulus, g)
  IN  IF Accelerated(zkvm) THEN c
      ELSE [value   |-> mul_montgomery_form(c.value, r3, modulus, mod_neg_inv),
            is_some |-> c.is_some]

\* into_montgomery_form
into_montgomery_form(zkvm, p, r2, modulus, mod_neg_inv) ==
  IF Accelerated(zkvm) THEN p
  ELSE montgomery_reduction(mul_wide(p, r2), modulus, mod_neg_inv)

\* from_montgomery_form
from_montgomery_form(zkvm, p, modulus, mod_neg_inv) ==
  IF Accelerated(zkvm) THEN p
  ELSE montgomery_reduction([lo |-> p, hi |-> 0], modulus, mod_neg_inv)

----------------------------------------------------------------------------
(* State.                                                                  *)

NoFlags == [sw |-> FALSE, hw |-> FALSE]

NoWire == [sw |-> 0, hw |-> 0]

NoPure == [lo |-> 0, hi |-> 0, red |-> 0, arg |-> 0,
           into |-> [sw |-> 0, hw |-> 0], back |-> [sw |-> 0, hw |-> 0]]

\* The element of Z/MODULUS x and y stand for.
ValX == IF xfrom = "decode" THEN (a * r_inv) % MODULUS ELSE a % MODULUS

ValY == b % MODULUS

\* The element of Z/MODULUS the result z of operation op stands for.
Expected ==
  CASE op = "mul"     -> (ValX * ValY) % MODULUS
    [] op = "square"  -> (ValX * ValX) % MODULUS
    [] op = "add"     -> (ValX + ValY) % MODULUS
    [] op = "sub"     -> (ValX + MODULUS - ValY) % MODULUS
    [] op = "neg"     -> (MODULUS - ValX) % MODULUS
    [] op = "half"    -> CHOOSE h \in 0 .. (MODULUS - 1) : (2 * h) % MODULUS = ValX
    [] op = "inv"     -> CHOOSE i \in 0 .. (MODULUS - 1) : (i * ValX) % MODULUS = 1
    [] op = "invmul"  -> 1
    [] op = "select0" -> ValX
    [] op = "select1" -> ValY
    [] OTHER          -> 0

\* A fresh caller: the constants ZERO and ONE, nothing computed.
Fresh ==
  /\ phase = "loadX" /\ op = "none"
  /\ x = ZERO /\ a = 0 /\ xfrom = "const"
  /\ y = ONE /\ b = 1
  /\ z = ZERO
  /\ pc = "idle" /\ call = NoCall /\ out = 0 /\ dest = "none"
  /\ faithful = TRUE
  /\ found = NoFlags /\ wire = NoWire /\ pure = NoPure

Init == MODULUS \in Moduli /\ Fresh

\* The caller goes on only after the accelerator call has returned, and the
\* model follows a computation only while sys_bigint has kept its contract.
Idle == pc = "idle" /\ faithful

\* What sys_bigint may write for a call with destination d. It is outside
\* the program, so any value of the buffer; for the calls that involve the
\* second operand y the model follows the specified product and the two
\* values on either side of the range assertion.
HostWrites(c, d) ==
  IF d = "y" \/ phase = "ready"
  THEN {sys_bigint(c.x, c.y, c.modulus), c.modulus - 1, c.modulus}
  ELSE Uint

\* modmul_u256 up to the return of sys_bigint: the width is the accelerated
\* one, the buffer holds w, the result is not formed yet.
Accel(c, d, w) ==
  /\ LIMBS = BIGINT_WIDTH_WORDS
  /\ pc' = "check" /\ call' = c /\ dest' = d /\ out' = w
  /\ faithful' = (w = sys_bigint(c.x, c.y, c.modulus))

\* An operation that makes no accelerator call.
NoAccel ==
  /\ pc' = "idle" /\ call' = NoCall /\ dest' = "none" /\ out' = 0
  /\ faithful' = faithful

----------------------------------------------------------------------------
(* modmul_u256 after sys_bigint returned.                                  *)

\* The range assertion passes: the buffer becomes the result.
ModmulReturn ==
  /\ pc = "check"
  /\ canonical(out, call.modulus)
  /\ pc' = "idle"
  /\ x' = IF dest = "x" THEN [x EXCEPT !.hw = out] ELSE x
  /\ y' = IF dest = "y" THEN [y EXCEPT !.hw = out] ELSE y
  /\ z' = IF dest = "z" THEN [z EXCEPT !.hw = out] ELSE z
  /\ wire' = IF dest = "wire" THEN [wire EXCEPT !.hw = out] ELSE wire
  /\ UNCHANGED <<MODULUS, phase, op, a, b, xfrom, call, out, dest, faithful,
                 found, pure>>

\* The range assertion fails: the process aborts, no result is formed.
ModmulAbort ==
  /\ pc = "check"
  /\ ~canonical(out, call.modulus)
  /\ pc' = "aborted"
  /\ UNCHANGED <<MODULUS, phase, op, x, y, z, a, b, xfrom, call, out, dest,
                 faithful, found, wire, pure>>

----------------------------------------------------------------------------
(* Making x: Residue::new, Deserialize, the constants.                     *)

NewX ==
  /\ Idle /\ phase = "loadX"
  /\ \E integer \in Uint :
       /\ \E w \in HostWrites(new_call(integer), "x") :
            Accel(new_call(integer), "x", w)
       /\ x' = [sw |-> new_montgomery(integer), hw |-> Pending]
       /\ a' = integer
  /\ xfrom' = "new"
  /\ phase' = "loadY"
  /\ UNCHANGED <<MODULUS, op, y, z, b, found, wire, pure>>

\* Deserialize of the encoded integer v: Err for a value that is not
\* reduced, else the value as it is (software) or times r_inv (zkVM).
DecodeX ==
  /\ Idle /\ phase = "loadX"
  /\ \E v \in Uint :
       /\ a' = v
       /\ IF deserialize_reduced(v)
          THEN /\ \E w \in HostWrites(deserialize_call(v), "x") :
                    Accel(deserialize_call(v), "x", w)
               /\ x' = [sw |-> v, hw |-> Pending]
               /\ xfrom' = "decode" /\ phase' = "loadY" /\ op' = op
          ELSE /\ NoAccel
               /\ x' = x
               /\ xfrom' = "rejected" /\ phase' = "done"
               /\ op' = "decode_err"
  /\ UNCHANGED <<MODULUS, y, z, b, found, wire, pure>>

UseZero ==
  /\ Idle /\ phase = "loadX"
  /\ x' = ZERO /\ a' = 0 /\ xfrom' = "const"
  /\ phase' = "loadY"
  /\ NoAccel
  /\ UNCHANGED <<MODULUS, op, y, z, b, found, wire, pure>>

UseOne ==
  /\ Idle /\ phase = "loadX"
  /\ x' = ONE /\ a' = 1 /\ xfrom' = "const"
  /\ phase' = "loadY"
  /\ NoAccel
  /\ UNCHANGED <<MODULUS, op, y, z, b, found, wire, pure>>

----------------------------------------------------------------------------
(* The reduction kernel and the conversion layer, called on their own.     *)

Reduce ==
  /\ Idle /\ phase = "loadX"
  /\ \E lo \in Uint, hi \in 0 .. (MODULUS - 1) :
       pure' = [pure EXCEPT !.lo = lo, !.hi = hi,
                  !.red = montgomery_reduction([lo |-> lo, hi |-> hi],
                                               MODULUS, MOD_NEG_INV)]
  /\ op' = "redc" /\ phase' = "done"
  /\ NoAccel
  /\ UNCHANGED <<MODULUS, x, y, z, a, b, xfrom, found, wire>>

Convert ==
  /\ Idle /\ phase = "loadX"
  /\ \E p \in Uint :
       LET isw == into_montgomery_form(FALSE, p, R2, MODULUS, MOD_NEG_INV)
           ihw == into_montgomery_form(TRUE, p, R2, MODULUS, MOD_NEG_INV)
       IN  pure' = [pure EXCEPT !.arg = p,
                      !.into = [sw |-> isw, hw |-> ihw],
                      !.back = [sw |-> from_montgomery_form(FALSE, isw,
                                          MODULUS, MOD_NEG_INV),
                                hw |-> from_montgomery_form(TRUE, ihw,
                                          MODULUS, MOD_NEG_INV)]]
  /\ op' = "conv" /\ phase' = "done"
  /\ NoAccel
  /\ UNCHANGED <<MODULUS, x, y, z, a, b, xfrom, found, wire>>

----------------------------------------------------------------------------
(* Operations on x alone.                                                  *)

Neg ==
  /\ Idle /\ phase = "loadY"
  /\ z' = [sw |-> neg_montgomery_form(x.sw, MODULUS),
           hw |-> neg_montgomery_form(x.hw, MODULUS)]
  /\ op' = "neg" /\ phase' = "done"
  /\ NoAccel
  /\ UNCHANGED <<MODULUS, x, y, a, b, xfrom, found, wire, pure>>

DivBy2 ==
  /\ Idle /\ phase = "loadY"
  /\ z' = [sw |-> Residue_div_by_2(x.sw), hw |-> Residue_div_by_2(x.hw)]
  /\ op' = "half" /\ phase' = "done"
  /\ NoAccel
  /\ UNCHANGED <<MODULUS, x, y, a, b, xfrom, found, wire, pure>>

\* x * x: REDC of the product (software), modmul (zkVM).
Square ==
  /\ Idle /\ phase = "loadY"
  /\ \E w \in HostWrites(mul_call(x.hw, x.hw), "z") :
       Accel(mul_call(x.hw, x.hw), "z", w)
  /\ z' = [sw |-> mul_montgomery_form(x.sw, x.sw, MODULUS, MOD_NEG_INV),
           hw |-> Pending]
  /\ op' = "square" /\ phase' = "done"
  /\ UNCHANGED <<MODULUS, x, y, a, b, xfrom, found, wire, pure>>

\* Residue::invert: inv_montgomery_form of the stored value.
Invert ==
  /\ Idle /\ phase = "loadY"
  /\ \E g1 \in Garbage(x.sw, MODULUS), g2 \in Garbage(x.hw, MODULUS) :
       LET isw == inv_montgomery_form(FALSE, x.sw, MODULUS, R3, MOD_NEG_INV, g1)
           ihw == inv_montgomery_form(TRUE, x.hw, MODULUS, R3, MOD_NEG_INV, g2)
       IN  /\ z' = [sw |-> isw.value, hw |-> ihw.value]
           /\ found' = [sw |-> isw.is_some, hw |-> ihw.is_some]
  /\ op' = "inv" /\ phase' = "done"
  /\ NoAccel
  /\ UNCHANGED <<MODULUS, x, y, a, b, xfrom, wire, pure>>

\* x times the inverse just found.
MulByInverse ==
  /\ Idle /\ phase = "done" /\ op = "inv"
  /\ found.sw /\ found.hw
  /\ \E w \in HostWrites(mul_call(x.hw, z.hw), "z") :
       Accel(mul_call(x.hw, z.hw), "z", w)
  /\ z' = [sw |-> mul_montgomery_form(x.sw, z.sw, MODULUS, MOD_NEG_INV),
           hw |-> Pending]
  /\ op' = "invmul"
  /\ UNCHANGED <<MODULUS, phase, x, y, a, b, xfrom, found, wire, pure>>

\* Serialize of x: the stored value (software), the stored value times R
\* by modmul (zkVM).
Encode ==
  /\ Idle /\ phase = "loadY"
  /\ \E w \in HostWrites(serialize_call(x.hw), "wire") :
       Accel(serialize_call(x.hw), "wire", w)
  /\ wire' = [sw |-> x.sw, hw |-> Pending]
  /\ op' = "encode" /\ phase' = "done"
  /\ UNCHANGED <<MODULUS, x, y, z, a, b, xfrom, found, pure>>

----------------------------------------------------------------------------
(* Making y, and the operations on x and y.                                *)

\* With a second operand, a decoded x is taken for the integer it stands for.
TakeX ==
  /\ a' = IF xfrom = "decode" THEN ValX ELSE a
  /\ xfrom' = IF xfrom = "decode" THEN "new" ELSE xfrom

NewY ==
  /\ Idle /\ phase = "loadY"
  /\ \E integer \in Uint :
       /\ \E w \in HostWrites(new_call(integer), "y") :
            Accel(new_call(integer), "y", w)
       /\ y' = [sw |-> new_montgomery(integer), hw |-> Pending]
       /\ b' = integer
  /\ TakeX
  /\ phase' = "ready"
  /\ UNCHANGED <<MODULUS, op, x, z, found, wire, pure>>

\* y stays the constant ONE.
KeepY ==
  /\ Idle /\ phase = "loadY"
  /\ TakeX
  /\ phase' = "ready"
  /\ NoAccel
  /\ UNCHANGED <<MODULUS, op, x, y, z, b, found, wire, pure>>

Mul ==
  /\ Idle /\ phase = "ready"
  /\ \E w \in HostWrites(mul_call(x.hw, y.hw), "z") :
       Accel(mul_call(x.hw, y.hw), "z", w)
  /\ z' = [sw |-> mul_montgomery_form(x.sw, y.sw, MODULUS, MOD_NEG_INV),
           hw |-> Pending]
  /\ op' = "mul" /\ phase' = "done"
  /\ UNCHANGED <<MODULUS, x, y, a, b, xfrom, found, wire, pure>>

Add ==
  /\ Idle /\ phase = "ready"
  /\ z' = [sw |-> add_montgomery_form(x.sw, y.sw, MODULUS),
           hw |-> add_montgomery_form(x.hw, y.hw, MODULUS)]
  /\ op' = "add" /\ phase' = "done"
  /\ NoAccel
  /\ UNCHANGED <<MODULUS, x, y, a, b, xfrom, found, wire, pure>>

Sub ==
  /\ Idle /\ phase = "ready"
  /\ z' = [sw |-> sub_montgomery_form(x.sw, y.sw, MODULUS),
           hw |-> sub_montgomery_form(x.hw, y.hw, MODULUS)]
  /\ op' = "sub" /\ phase' = "done"
  /\ NoAccel
  /\ UNCHANGED <<MODULUS, x, y, a, b, xfrom, found, wire, pure>>

Select ==
  /\ Idle /\ phase = "ready"
  /\ \E choice \in BOOLEAN :
       /\ z' = [sw |-> conditional_select(x.sw, y.sw, choice),
                hw |-> conditional_select(x.hw, y.hw, choice)]
       /\ op' = (IF choice THEN "select1" ELSE "select0")
  /\ phase' = "done"
  /\ NoAccel
  /\ UNCHANGED <<MODULUS, x, y, a, b, xfrom, found, wire, pure>>

----------------------------------------------------------------------------
(* Going on.                                                               *)

Results == {"mul", "square", "add", "sub", "neg", "half", "inv", "invmul",
            "select0", "select1"}

\* The result becomes the operand x of the next operation.
Continue ==
  /\ Idle /\ phase = "done" /\ op \in Results
  /\ op = "inv" => (found.sw /\ found.hw)
  /\ x' = z /\ a' = Expected /\ xfrom' = "new"
  /\ y' = ONE /\ b' = 1 /\ z' = ZERO
  /\ op' = "none" /\ phase' = "loadY"
  /\ found' = NoFlags /\ wire' = NoWire
  /\ NoAccel
  /\ UNCHANGED <<MODULUS, pure>>

\* A new computation with the same parameters.
Reset ==
  /\ pc = "idle"
  /\ phase = "done" \/ ~faithful
  /\ phase' = "loadX" /\ op' = "none"
  /\ x' = ZERO /\ a' = 0 /\ xfrom' = "const"
  /\ y' = ONE /\ b' = 1
  /\ z' = ZERO
  /\ pc' = "idle" /\ call' = NoCall /\ out' = 0 /\ dest' = "none"
  /\ faithful' = TRUE
  /\ found' = NoFlags /\ wire' = NoWire /\ pure' = NoPure
  /\ UNCHANGED MODULUS

Next ==
  \/ ModmulReturn
  \/ ModmulAbort
  \/ NewX
  \/ DecodeX
  \/ UseZero
  \/ UseOne
  \/ Reduce
  \/ Convert
  \/ Neg
  \/ DivBy2
  \/ Square
  \/ Invert
  \/ MulByInverse
  \/ Encode
  \/ NewY
  \/ KeepY
  \/ Mul
  \/ Add
  \/ Sub
  \/ Select
  \/ Continue
  \/ Reset

Spec == Init /\ [][Next]_vars

----------------------------------------------------------------------------
(* Properties.                                                             *)

InRange(v) == v \in 0 .. (MODULUS - 1)

\* The hw field the accelerator call in progress (or last made) writes.
DestHw ==
  CASE dest = "x"    -> x.hw
    [] dest = "y"    -> y.hw
    [] dest = "z"    -> z.hw
    [] dest = "wire" -> wire.hw
    [] OTHER         -> Pending

\* C1: for every odd modulus and all Uint a, b (also a, b >= MODULUS), the
\* product of new(a) and new(b) retrieves to (a * b) mod MODULUS: on the
\* software Montgomery path, and on the accelerated path once modmul has
\* returned the product sys_bigint is specified to write.
C1_MulHomomorphism ==
  op = "mul" =>
    /\ retrieve(FALSE, z.sw) = (a * b) % MODULUS
    /\ (pc = "idle" /\ faithful) => retrieve(TRUE, z.hw) = (a * b) % MODULUS

C1_Witness ==
  /\ op = "mul" /\ pc = "idle" /\ faithful
  /\ a >= MODULUS /\ b >= MODULUS
  /\ (a * b) % MODULUS > 1
  /\ z.sw # z.hw

\* C2: new followed by retrieve is the canonical reduction: a residue made
\* by new(a) retrieves to a mod MODULUS on both paths; so to a for
\* a < MODULUS, and to 0 for a = MODULUS.
C2_NewRetrieve ==
  (xfrom = "new" /\ phase # "loadX") =>
    /\ retrieve(FALSE, x.sw) = a % MODULUS
    /\ (x.hw # Pending /\ faithful) => retrieve(TRUE, x.hw) = a % MODULUS

C2_Witness ==
  /\ xfrom = "new" /\ dest = "x" /\ pc = "idle" /\ faithful
  /\ a = MODULUS
  /\ retrieve(FALSE, x.sw) = 0 /\ retrieve(TRUE, x.hw) = 0

C4_ModmulChecked ==
  /\ pc = "check" => DestHw = Pending
  /\ pc = "aborted" => (DestHw = Pending /\ out >= call.modulus)
  /\ (pc = "idle" /\ dest # "none") => (DestHw = out /\ out < call.modulus)

C4_Witness ==
  /\ pc = "aborted" /\ dest = "x"
  /\ out = call.modulus
  /\ call.x < call.modulus

C6_Inverse ==
  /\ op = "inv" =>
       /\ found.sw = (GCD(ValX, MODULUS) = 1)
       /\ found.hw = (GCD(ValX, MODULUS) = 1)
       /\ found.sw => (retrieve(FALSE, z.sw) * ValX) % MODULUS = 1
       /\ found.hw => (retrieve(TRUE, z.hw) * ValX) % MODULUS = 1
  /\ op = "invmul" =>
       /\ retrieve(FALSE, z.sw) = 1
       /\ (pc = "idle" /\ faithful) => retrieve(TRUE, z.hw) = 1

C6_Witness ==
  /\ op = "invmul" /\ pc = "idle" /\ faithful
  /\ xfrom = "new" /\ a > MODULUS /\ ValX > 1
  /\ found.sw /\ found.hw

\* The other case of C6: a value that shares a factor with MODULUS.
C6_NonUnitReached ==
  op = "inv" /\ ValX > 0 /\ ~found.sw /\ ~found.hw

\* C7: decoding v fails, and makes no residue, exactly when v >= MODULUS;
\* a decoded v < MODULUS encodes to v again, on both paths.
C7_DecodeRoundTrip ==
  /\ xfrom = "rejected" => (a >= MODULUS /\ op = "decode_err" /\ x = ZERO)
  /\ xfrom = "decode" => a < MODULUS
  /\ (op = "encode" /\ xfrom = "decode") =>
       /\ wire.sw = a
       /\ (pc = "idle" /\ faithful) => wire.hw = a

C7_Witness ==
  /\ op = "encode" /\ xfrom = "decode" /\ pc = "idle" /\ faithful
  /\ a > 0 /\ x.hw # a
  /\ wire.sw = a /\ wire.hw = a

\* C8: halving new(a) gives y < MODULUS with 2 * y = a mod MODULUS, on both
\* paths; the stored value s becomes s / 2 for even s and (s + MODULUS) / 2
\* for odd s, the sum taken exactly.
C8_Halving ==
  op = "half" =>
    /\ InRange(retrieve(FALSE, z.sw))
    /\ InRange(retrieve(TRUE, z.hw))
    /\ (2 * retrieve(FALSE, z.sw)) % MODULUS = ValX
    /\ (2 * retrieve(TRUE, z.hw)) % MODULUS = ValX
    /\ \A f \in {"sw", "hw"} :
         z[f] = IF x[f] % 2 = 0 THEN x[f] \div 2 ELSE (x[f] + MODULUS) \div 2

\* An odd stored value whose sum with MODULUS does not fit a Uint.
C8_Witness ==
  /\ op = "half" /\ xfrom = "new"
  /\ x.sw % 2 = 1 /\ x.sw + MODULUS >= UintSize
  /\ x.hw # x.sw
  /\ z.sw = (x.sw + MODULUS) \div 2

\* The double-width input of the last Reduce.
RedcInput == pure.lo + pure.hi * UintSize

\* C9: for a double-width input T < MODULUS * 2^(LIMBS * WordBits) the
\* reduction kernel returns the value in [0, MODULUS) congruent to
\* T * 2^-(LIMBS * WordBits) mod MODULUS.
C9_Redc ==
  op = "redc" =>
    /\ InRange(pure.red)
    /\ (pure.red * UintSize) % MODULUS = RedcInput % MODULUS

\* A non-zero multiple of MODULUS: the loop ends on MODULUS itself.
C9_Witness ==
  /\ op = "redc"
  /\ RedcInput > 0 /\ RedcInput % MODULUS = 0
  /\ redc_intermediate([lo |-> pure.lo, hi |-> pure.hi], MODULUS,
                       MOD_NEG_INV) = MODULUS
  /\ pure.red = 0

\* The other case of C9: the loop ends on a value that carries out of the
\* LIMBS words.
C9_CarryReached ==
  /\ op = "redc"
  /\ redc_intermediate([lo |-> pure.lo, hi |-> pure.hi], MODULUS,
                       MOD_NEG_INV) >= UintSize

\* C10: on the accelerated path into_montgomery_form(p) is p reduced to
\* [0, MODULUS) and from_montgomery_form is the identity; on the software
\* path into_montgomery_form(p) is REDC(p * R2) and from_montgomery_form
\* brings it back to p mod MODULUS.
C10_ConversionLayer ==
  op = "conv" =>
    /\ InRange(pure.into.hw)
    /\ pure.into.hw = pure.arg % MODULUS
    /\ pure.back.hw = pure.into.hw
    /\ pure.into.sw = montgomery_reduction(mul_wide(pure.arg, R2), MODULUS,
                                           MOD_NEG_INV)
    /\ pure.back.sw = pure.arg % MODULUS

====
